---- MODULE Spec2Model ----
(***************************************************************************)
(* Model of platform_plugin_aspects:                                       *)
(*   - XBlockSink.serialize_item (sinks/course_overview_sink.py): flatten  *)
(*     the published course tree, append the detached blocks, annotate     *)
(*     order / section / subsection / unit, dedupe by location;            *)
(*   - CourseOverviewSink.should_dump_item: the staleness policy;          *)
(*   - the signal handlers exercised by tests/test_signals.py.             *)
(***************************************************************************)
EXTENDS Integers, Sequences, FiniteSets

VARIABLES
    \* ---- XBlockSink.serialize_item ----
    pc,               \* position inside serialize_item
    course_block,     \* tree returned by modulestore.get_course
    course_blocks,    \* flat list returned by modulestore.get_items
    items,            \* list of serialized blocks (mutated in place by the loop)
    index,            \* loop counter, line 125
    section_idx,      \* line 126
    subsection_idx,   \* line 127
    unit_idx,         \* line 128
    location_to_node, \* insertion-ordered dict, line 104
    result,           \* returned list, line 162
    \* ---- CourseOverviewSink.should_dump_item ----
    sd_pc,            \* position inside should_dump_item
    last_dumped,      \* what get_last_dumped_timestamp returns
    modified,         \* course_overview.modified
    needs_dump,       \* returned decision, or the raised error
    \* ---- signal handlers ----
    delivered,        \* the signal delivered last
    task_queue        \* tasks enqueued with .delay(...)

vars == <<pc, course_block, course_blocks, items, index, section_idx,
          subsection_idx, unit_idx, location_to_node, result,
          sd_pc, last_dumped, modified, needs_dump, delivered, task_queue>>

xblock_vars == <<pc, course_block, course_blocks, items, index, section_idx,
                 subsection_idx, unit_idx, location_to_node, result>>
dump_vars == <<sd_pc, last_dumped, modified, needs_dump>>
signal_vars == <<delivered, task_queue>>

None == "None"

-----------------------------------------------------------------------------
(* Bounds of the model.                                                    *)

\* largest number of blocks in the course tree
MaxBlocks == 4

-----------------------------------------------------------------------------
(* The content store.                                                      *)

MODULESTORE_PUBLISHED_ONLY_FLAG == "rev-opt-published-only"

\* get_detached_xblock_types(): the configured detached block types
detached_xblock_types == {"static_tab"}

\* block types of the blocks below the course root
TreeBlockTypes == {"chapter", "sequential", "vertical", "html", "static_tab"}
\* block types of the entries of the flat list
ItemBlockTypes == {"html", "static_tab"}

\* A usage key: the block id plus the branch the store read it from.
UsageKey(id, branch) == [block_id |-> id, branch |-> branch]

\* The block ids the flat list draws from: the first block below the root
\* (when the tree has one) and an id no tree block carries.
ItemBlockIds == {2, MaxBlocks + 1}

\* A course tree of n blocks: block 1 is the root (type "course"), block i > 1
\* hangs below parent[i] < i; get_children lists the children by ascending i.
Courses ==
    UNION { { [n |-> n, parent |-> p, block_type |-> t] :
                p \in { q \in [1..n -> 0..n] :
                          /\ q[1] = 0
                          /\ \A i \in 2..n : q[i] \in 1..(i-1) },
                t \in { u \in [1..n -> TreeBlockTypes \cup {"course"}] :
                          /\ u[1] = "course"
                          /\ \A i \in 2..n : u[i] \in TreeBlockTypes } }
            : n \in 1..MaxBlocks }

\* The XBlock at tree position i, as the store hands it out.
XBlockAt(course, i) ==
    [location |-> UsageKey(i, MODULESTORE_PUBLISHED_ONLY_FLAG),
     block_type |-> course.block_type[i]]

\* The flat lists get_items may return: each block once, any order, under
\* either block type.
ItemLists ==
    UNION { { s \in [1..k -> [location : { UsageKey(i, MODULESTORE_PUBLISHED_ONLY_FLAG) :
                                             i \in ItemBlockIds },
                              block_type : ItemBlockTypes]] :
                \A a, b \in 1..k : a # b => s[a].location # s[b].location }
            : k \in 0..Cardinality(ItemBlockIds) }

\* mutation: the children in reverse order
get_children_Reversed(course, i) ==
    LET kids == SelectSeq([j \in 1..course.n |-> j], LAMBDA j : course.parent[j] = i)
    IN [k \in 1..Len(kids) |-> kids[Len(kids) + 1 - k]]

\* parent_block.get_children(), in the order the store returns them
get_children(course, i) ==
    SelectSeq([j \in 1..course.n |-> j], LAMBDA j : course.parent[j] = i)

-----------------------------------------------------------------------------
(* XBlockSink                                                              *)

\* location.for_branch(None): drop branch and version
strip_branch_and_version(location) == [location EXCEPT !.branch = None]

serialize_xblock(item) ==
    [location   |-> strip_branch_and_version(item.location),
     block_type |-> item.block_type,
     detached   |-> IF item.block_type \in detached_xblock_types THEN 1 ELSE 0,
     section    |-> None,
     subsection |-> None,
     unit       |-> None,
     order      |-> -1]

RECURSIVE get_xblocks_recursive(_, _)
RECURSIVE ExtendWithChildren(_, _, _)

\* the for loop of get_xblocks_recursive, lines 71-74
ExtendWithChildren(course, children, acc) ==
    IF children = <<>> THEN acc
    ELSE ExtendWithChildren(course, Tail(children),
                            acc \o get_xblocks_recursive(course, Head(children)))

get_xblocks_recursive(course, parent_block) ==
    ExtendWithChildren(course, get_children(course, parent_block),
                       <<serialize_xblock(XBlockAt(course, parent_block))>>)

RECURSIVE get_detached_xblocks(_)
get_detached_xblocks(blocks) ==
    IF blocks = <<>> THEN <<>>
    ELSE (IF Head(blocks).block_type \in detached_xblock_types
          THEN <<serialize_xblock(Head(blocks))>> ELSE <<>>)
         \o get_detached_xblocks(Tail(blocks))

\* mutation: an existing key is dropped and the value re-inserted at the end
DictSetItem_MoveToEnd(d, value) ==
    Append(SelectSeq(d, LAMBDA r : r.location # value.location), value)

\* mutation: an existing key keeps its first value (setdefault)
DictSetItem_KeepFirst(d, value) ==
    IF \E i \in 1..Len(d) : d[i].location = value.location
    THEN d
    ELSE Append(d, value)

\* location_to_node[key] = value on an insertion-ordered dict: an existing key
\* keeps its slot and takes the new value, a new key goes to the end.
DictSetItem(d, value) ==
    IF \E i \in 1..Len(d) : d[i].location = value.location
    THEN [i \in 1..Len(d) |-> IF d[i].location = value.location THEN value ELSE d[i]]
    ELSE Append(d, value)

\* mutation: a sequential does not reset the unit counter
NextIndices_NoUnitReset(block_type, sec, sub, un) ==
    IF block_type = "chapter" THEN <<sec + 1, 0, 0>>
    ELSE IF block_type = "sequential" THEN <<sec, sub + 1, un>>
    ELSE IF block_type = "vertical" THEN <<sec, sub, un + 1>>
    ELSE <<sec, sub, un>>

\* The counters after seeing a non-detached block of the given type, lines 141-149
NextIndices(block_type, sec, sub, un) ==
    IF block_type = "chapter" THEN <<sec + 1, 0, 0>>
    ELSE IF block_type = "sequential" THEN <<sec, sub + 1, 0>>
    ELSE IF block_type = "vertical" THEN <<sec, sub, un + 1>>
    ELSE <<sec, sub, un>>

\* mutation: order assigned before the counter is incremented
AnnotateBlock_ZeroBasedOrder(block, idx, counters) ==
    IF block.detached = 1
    THEN [block EXCEPT !.order = idx - 1, !.section = 0, !.subsection = 0, !.unit = 0]
    ELSE [block EXCEPT !.order = idx - 1, !.section = counters[1],
                       !.subsection = counters[2], !.unit = counters[3]]

\* mutation: detached blocks take the running counters like any other block
AnnotateBlock_IgnoreDetached(block, idx, counters) ==
    [block EXCEPT !.order = idx, !.section = counters[1],
                  !.subsection = counters[2], !.unit = counters[3]]

\* The block as the loop body leaves it, lines 133-153
AnnotateBlock(block, idx, counters) ==
    IF block.detached = 1
    THEN [block EXCEPT !.order = idx, !.section = 0, !.subsection = 0, !.unit = 0]
    ELSE [block EXCEPT !.order = idx, !.section = counters[1],
                       !.subsection = counters[2], !.unit = counters[3]]

\* lines 100-128: fetch the tree and the detached blocks, reset the counters
Collect ==
    /\ pc = "start"
    /\ items' = get_xblocks_recursive(course_block, 1)
                   \o get_detached_xblocks(course_blocks)
    /\ index' = 0
    /\ section_idx' = 0
    /\ subsection_idx' = 0
    /\ unit_idx' = 0
    /\ location_to_node' = <<>>
    /\ pc' = "loop"
    /\ UNCHANGED <<course_block, course_blocks, result>>
    /\ UNCHANGED dump_vars /\ UNCHANGED signal_vars

\* one iteration of the for loop, lines 130-160; the tags (line 155) and the
\* JSON text of xblock_data_json (line 159) add to the block without changing
\* the fields kept here, which stay readable as fields
LoopBody ==
    /\ pc = "loop"
    /\ index < Len(items)
    /\ LET i == index + 1
           block == items[i]
           counters == IF block.detached = 1
                       THEN <<section_idx, subsection_idx, unit_idx>>
                       ELSE NextIndices(block.block_type, section_idx,
                                        subsection_idx, unit_idx)
           annotated == AnnotateBlock(block, i, counters)
       IN /\ index' = i
          /\ section_idx' = counters[1]
          /\ subsection_idx' = counters[2]
          /\ unit_idx' = counters[3]
          /\ items' = [items EXCEPT ![i] = annotated]
          /\ location_to_node' = DictSetItem(location_to_node, annotated)
    /\ UNCHANGED <<pc, course_block, course_blocks, result>>
    /\ UNCHANGED dump_vars /\ UNCHANGED signal_vars

\* line 162
Return ==
    /\ pc = "loop"
    /\ index = Len(items)
    /\ result' = location_to_node
    /\ pc' = "done"
    /\ UNCHANGED <<course_block, course_blocks, items, index, section_idx,
                   subsection_idx, unit_idx, location_to_node>>
    /\ UNCHANGED dump_vars /\ UNCHANGED signal_vars

DumpIdle ==
    /\ sd_pc = "idle" /\ last_dumped = None /\ modified = None /\ needs_dump = None
SignalIdle ==
    /\ delivered = <<None, None, 0>> /\ task_queue = <<>>
XBlockIdle ==
    /\ pc = "idle"
    /\ course_block = [n |-> 1, parent |-> <<0>>, block_type |-> <<"course">>]
    /\ course_blocks = <<>> /\ items = <<>>
    /\ index = 0 /\ section_idx = 0 /\ subsection_idx = 0 /\ unit_idx = 0
    /\ location_to_node = <<>> /\ result = <<>>

XBlockInit ==
    /\ pc = "start"
    /\ course_block \in Courses
    /\ course_blocks \in ItemLists
    /\ items = <<>>
    /\ index = 0 /\ section_idx = 0 /\ subsection_idx = 0 /\ unit_idx = 0
    /\ location_to_node = <<>>
    /\ result = <<>>
    /\ DumpIdle /\ SignalIdle

XBlockNext == Collect \/ LoopBody \/ Return

XBlockSpec == XBlockInit /\ [][XBlockNext]_vars

-----------------------------------------------------------------------------
(* Timestamps as text: a string is a sequence of one-character strings.    *)

Digits == <<"0", "1", "2", "3", "4", "5", "6", "7", "8", "9">>
IsDigit(c) == \E d \in 1..10 : Digits[d] = c
DigitValue(c) == (CHOOSE d \in 1..10 : Digits[d] = c) - 1

RECURSIVE Power10(_)
Power10(k) == IF k = 0 THEN 1 ELSE 10 * Power10(k - 1)

\* n in decimal, zero-padded to width characters
RECURSIVE ZeroPadded(_, _)
ZeroPadded(n, width) ==
    IF width = 0 THEN <<>>
    ELSE ZeroPadded(n \div 10, width - 1) \o <<Digits[(n % 10) + 1]>>

\* A datetime value: <<year, month, day, hour, minute, second, microsecond,
\* tzinfo>>, tzinfo being "UTC" or None (a naive value).
Datetime(year, month, day, hour, minute, second, microsecond, tzinfo) ==
    <<year, month, day, hour, minute, second, microsecond, tzinfo>>
Year(dt) == dt[1]
Month(dt) == dt[2]
Day(dt) == dt[3]
Hour(dt) == dt[4]
Minute(dt) == dt[5]
Second(dt) == dt[6]
Microsecond(dt) == dt[7]
Tzinfo(dt) == dt[8]

UtcOffsetText == <<"+", "0", "0", ":", "0", "0">>

\* datetime.isoformat(sep): the fraction is printed only when the microsecond
\* is not 0, the offset only for an aware value
IsoFormat(dt, sep) ==
    ZeroPadded(Year(dt), 4) \o <<"-">> \o ZeroPadded(Month(dt), 2) \o <<"-">>
    \o ZeroPadded(Day(dt), 2) \o <<sep>>
    \o ZeroPadded(Hour(dt), 2) \o <<":">> \o ZeroPadded(Minute(dt), 2) \o <<":">>
    \o ZeroPadded(Second(dt), 2)
    \o (IF Microsecond(dt) # 0 THEN <<".">> \o ZeroPadded(Microsecond(dt), 6) ELSE <<>>)
    \o (IF Tzinfo(dt) = "UTC" THEN UtcOffsetText ELSE <<>>)

\* str(datetime) is isoformat(sep=" ")
DatetimeStr(dt) == IsoFormat(dt, " ")

IsLeap(year) == (year % 4 = 0) /\ ((year % 100 # 0) \/ (year % 400 = 0))
DaysInMonth(year, month) ==
    IF month = 2 THEN (IF IsLeap(year) THEN 29 ELSE 28)
    ELSE IF month \in {4, 6, 9, 11} THEN 30 ELSE 31

ParseFailure == [ok |-> FALSE, value |-> 0, width |-> 0, next |-> 0]

\* number of digits at s[p], s[p+1], ..., at most maxw
RECURSIVE DigitRun(_, _, _)
DigitRun(s, p, maxw) ==
    IF maxw = 0 \/ p > Len(s) THEN 0
    ELSE IF IsDigit(s[p]) THEN 1 + DigitRun(s, p + 1, maxw - 1) ELSE 0

RECURSIVE DigitsValue(_, _, _)
DigitsValue(s, p, w) ==
    IF w = 0 THEN 0
    ELSE 10 * DigitsValue(s, p, w - 1) + DigitValue(s[p + w - 1])

\* a numeric directive followed by a literal: minw..maxw digits, value in lo..hi
NumericField(s, p, minw, maxw, lo, hi) ==
    LET w == DigitRun(s, p, maxw)
    IN IF w < minw THEN ParseFailure
       ELSE LET v == DigitsValue(s, p, w)
            IN IF v \in lo..hi
               THEN [ok |-> TRUE, value |-> v, width |-> w, next |-> p + w]
               ELSE ParseFailure

\* %d also accepts a blank followed by one digit 1-9
DayField(s, p) ==
    IF /\ p + 1 <= Len(s) /\ s[p] = " " /\ IsDigit(s[p + 1]) /\ s[p + 1] # "0"
    THEN [ok |-> TRUE, value |-> DigitValue(s[p + 1]), width |-> 2, next |-> p + 2]
    ELSE NumericField(s, p, 1, 2, 1, 31)

\* a literal character of the format
Literal(s, p, c) == p <= Len(s) /\ s[p] = c

\* blank in the format: one or more blanks in the text; the position after them
RECURSIVE SkipBlanks(_, _)
SkipBlanks(s, p) ==
    IF p <= Len(s) /\ s[p] = " " THEN SkipBlanks(s, p + 1) ELSE p

ValueError == "ValueError"

\* datetime.datetime.strptime(s, "%Y-%m-%d %H:%M:%S.%f+00:00"), lines 248-253:
\* the naive datetime, or ValueError
strptime(s) ==
    LET Y == NumericField(s, 1, 4, 4, 0, 9999) IN
    IF ~Y.ok \/ ~Literal(s, Y.next, "-") THEN ValueError ELSE
    LET m == NumericField(s, Y.next + 1, 1, 2, 1, 12) IN
    IF ~m.ok \/ ~Literal(s, m.next, "-") THEN ValueError ELSE
    LET d == DayField(s, m.next + 1) IN
    IF ~d.ok \/ ~Literal(s, d.next, " ") THEN ValueError ELSE
    LET H == NumericField(s, SkipBlanks(s, d.next), 1, 2, 0, 23) IN
    IF ~H.ok \/ ~Literal(s, H.next, ":") THEN ValueError ELSE
    LET M == NumericField(s, H.next + 1, 1, 2, 0, 59) IN
    IF ~M.ok \/ ~Literal(s, M.next, ":") THEN ValueError ELSE
    LET S == NumericField(s, M.next + 1, 1, 2, 0, 59) IN
    IF ~S.ok \/ ~Literal(s, S.next, ".") THEN ValueError ELSE
    LET f == NumericField(s, S.next + 1, 1, 6, 0, 999999) IN
    IF ~f.ok THEN ValueError ELSE
    IF SubSeq(s, f.next, Len(s)) # UtcOffsetText THEN ValueError ELSE
    IF Y.value < 1 \/ d.value > DaysInMonth(Y.value, m.value) THEN ValueError ELSE
    Datetime(Y.value, m.value, d.value, H.value, M.value, S.value,
             f.value * Power10(6 - f.width), None)

\* a < b on two naive datetimes: field by field, most significant first
RECURSIVE TupleLess(_, _)
TupleLess(a, b) ==
    IF a = <<>> THEN FALSE
    ELSE IF Head(a) # Head(b) THEN Head(a) < Head(b)
    ELSE TupleLess(Tail(a), Tail(b))
\* mutation: <= in place of <
DatetimeLess_OrEqual(a, b) ==
    SubSeq(a, 1, 7) = SubSeq(b, 1, 7) \/ TupleLess(SubSeq(a, 1, 7), SubSeq(b, 1, 7))

DatetimeLess(a, b) == TupleLess(SubSeq(a, 1, 7), SubSeq(b, 1, 7))

-----------------------------------------------------------------------------
(* CourseOverviewSink                                                      *)

\* lines 268-286
get_course_last_published(course_overview_modified) ==
    IF course_overview_modified # None
    THEN DatetimeStr(course_overview_modified)
    ELSE None

\* truth value of a str in a condition: the empty string is false
Truthy(s) == s # <<>>

\* mutation: a parse error is swallowed and read as "needs dump"
should_dump_item_ErrorMeansDump(course_last_dump_time, course_overview_modified) ==
    IF course_last_dump_time = None THEN "True"
    ELSE LET course_last_published_date ==
                 get_course_last_published(course_overview_modified)
         IN IF Truthy(course_last_dump_time) /\ course_last_published_date = None
            THEN "False"
            ELSE LET dumped == strptime(course_last_dump_time)
                 IN IF dumped = ValueError THEN "True"
                    ELSE LET published == strptime(course_last_published_date)
                         IN IF published = ValueError THEN "True"
                            ELSE IF DatetimeLess(dumped, published)
                                 THEN "True" ELSE "False"

\* lines 222-266: the decision, or the error the parse raises
should_dump_item(course_last_dump_time, course_overview_modified) ==
    IF course_last_dump_time = None THEN "True"
    ELSE LET course_last_published_date ==
                 get_course_last_published(course_overview_modified)
         IN IF Truthy(course_last_dump_time) /\ course_last_published_date = None
            THEN "False"
            ELSE LET dumped == strptime(course_last_dump_time)
                 IN IF dumped = ValueError THEN ValueError
                    ELSE LET published == strptime(course_last_published_date)
                         IN IF published = ValueError THEN ValueError
                            ELSE IF DatetimeLess(dumped, published)
                                 THEN "True" ELSE "False"

\* one call of should_dump_item
ShouldDumpItem ==
    /\ sd_pc = "start"
    /\ needs_dump' = should_dump_item(last_dumped, modified)
    /\ sd_pc' = "done"
    /\ UNCHANGED <<last_dumped, modified>>
    /\ UNCHANGED xblock_vars /\ UNCHANGED signal_vars

\* course_overview.modified: aware UTC values, one with a zero microsecond,
\* and a naive one
ModifiedValues ==
    { Datetime(2024, 1, 1, 0, 0, 0, 500000, "UTC"),
      Datetime(2024, 1, 1, 0, 0, 0, 500001, "UTC"),
      Datetime(2024, 1, 2, 0, 0, 0, 1, "UTC"),
      Datetime(2023, 12, 31, 23, 59, 59, 999999, "UTC"),
      Datetime(2024, 2, 29, 12, 30, 45, 123456, "UTC"),
      Datetime(2024, 1, 1, 0, 0, 0, 0, "UTC"),
      Datetime(2024, 1, 1, 0, 0, 0, 500000, None) }

\* what get_last_dumped_timestamp may hand back besides None: texts in the
\* fixed layout, the same instant with unpadded fields, a text without the
\* fraction, one without the offset, one with the ISO "T" separator, and a
\* day that does not exist
LastDumpedTimestamps ==
    { DatetimeStr(Datetime(2024, 1, 1, 0, 0, 0, 500000, "UTC")),
      DatetimeStr(Datetime(2024, 1, 2, 0, 0, 0, 1, "UTC")),
      DatetimeStr(Datetime(2023, 12, 31, 23, 59, 59, 999999, "UTC")),
      DatetimeStr(Datetime(2024, 2, 29, 12, 30, 45, 123456, "UTC")),
      <<"2", "0", "2", "4", "-", "1", "-", "1", " ", "0", ":", "0", ":", "0", ".", "5", "+", "0", "0", ":", "0", "0">>,
      DatetimeStr(Datetime(2024, 1, 1, 0, 0, 0, 0, "UTC")),
      DatetimeStr(Datetime(2024, 1, 1, 0, 0, 0, 500000, None)),
      IsoFormat(Datetime(2024, 1, 1, 0, 0, 0, 500000, "UTC"), "T"),
      DatetimeStr(Datetime(2023, 2, 29, 12, 30, 45, 123456, "UTC")) }

DumpInit ==
    /\ sd_pc = "start"
    /\ (last_dumped \in LastDumpedTimestamps \/ last_dumped = None)
    /\ (modified = None \/ modified \in ModifiedValues)
    /\ needs_dump = None
    /\ XBlockIdle /\ SignalIdle

DumpNext == ShouldDumpItem

DumpSpec == DumpInit /\ [][DumpNext]_vars

-----------------------------------------------------------------------------
(* Properties of CourseOverviewSink.should_dump_item                       *)

\* days from 0001-01-01 to the day of dt
RECURSIVE DaysBeforeMonth(_, _)
DaysBeforeMonth(year, month) ==
    IF month = 1 THEN 0
    ELSE DaysBeforeMonth(year, month - 1) + DaysInMonth(year, month - 1)
Ordinal(dt) ==
    LET y == Year(dt) - 1
    IN y * 365 + (y \div 4) - (y \div 100) + (y \div 400)
       + DaysBeforeMonth(Year(dt), Month(dt)) + Day(dt)
SecondOfDay(dt) == (Hour(dt) * 60 + Minute(dt)) * 60 + Second(dt)
\* a is an earlier instant than b
Earlier(a, b) ==
    \/ Ordinal(a) < Ordinal(b)
    \/ /\ Ordinal(a) = Ordinal(b)
       /\ \/ SecondOfDay(a) < SecondOfDay(b)
          \/ /\ SecondOfDay(a) = SecondOfDay(b)
             /\ Microsecond(a) < Microsecond(b)

Parseable(s) == strptime(s) # ValueError
BothPresent == last_dumped # None /\ modified # None
PublishedText == DatetimeStr(modified)

\* C2: True whenever the last-dump timestamp is absent; False when it is
\* present and the last-modified timestamp is absent; for two parseable
\* timestamps True exactly when the last dump is the earlier instant.
C2_StalenessRules ==
    sd_pc = "done" =>
        /\ (last_dumped = None => needs_dump = "True")
        /\ ((last_dumped # None /\ modified = None) => needs_dump = "False")
        /\ ((BothPresent /\ Parseable(last_dumped) /\ Parseable(PublishedText)) =>
               needs_dump = (IF Earlier(strptime(last_dumped), modified)
                             THEN "True" ELSE "False"))

\* two different texts of the same instant: equality gives False
C2_Witness ==
    /\ sd_pc = "done"
    /\ BothPresent
    /\ Parseable(last_dumped) /\ Parseable(PublishedText)
    /\ last_dumped # PublishedText
    /\ ~Earlier(strptime(last_dumped), modified)
    /\ ~Earlier(modified, strptime(last_dumped))
    /\ needs_dump = "False"

\* the fixed layout YYYY-MM-DD HH:MM:SS.ffffff+00:00 ("d" stands for a digit)
FixedFormatTemplate ==
    <<"d", "d", "d", "d", "-", "d", "d", "-", "d", "d", " ", "d", "d", ":", "d", "d", ":", "d", "d", ".", "d", "d", "d", "d", "d", "d", "+", "0", "0", ":", "0", "0">>
InFixedFormat(s) ==
    /\ Len(s) = Len(FixedFormatTemplate)
    /\ \A i \in 1..Len(s) :
          IF FixedFormatTemplate[i] = "d" THEN IsDigit(s[i])
          ELSE s[i] = FixedFormatTemplate[i]
Malformed(s) == ~InFixedFormat(s)
LacksUtcSuffix(s) ==
    Len(s) < Len(UtcOffsetText)
       \/ SubSeq(s, Len(s) - Len(UtcOffsetText) + 1, Len(s)) # UtcOffsetText
LacksFraction(s) == \A i \in 1..Len(s) : s[i] # "."

\* C3 as stated: a malformed timestamp, as last-dump or as last-modified
\* value, always ends should_dump_item in a parse error.
C3_MalformedAlwaysRaises ==
    sd_pc = "done" =>
        (((last_dumped # None /\ Malformed(last_dumped))
             \/ (modified # None /\ Malformed(PublishedText)))
           => needs_dump = ValueError)

\* C3 amended: when both timestamps are present and one of them is rejected
\* by the fixed-format parse (as every text without the +00:00 suffix or
\* without a fraction is), the call ends in a parse error; an absent
\* timestamp decides the call before anything is parsed.
C3_ParseErrorWhenBothPresent ==
    sd_pc = "done" =>
        /\ ((BothPresent /\ (\/ LacksUtcSuffix(last_dumped)
                             \/ LacksFraction(last_dumped)
                             \/ LacksUtcSuffix(PublishedText)
                             \/ LacksFraction(PublishedText)))
               => needs_dump = ValueError)
        /\ ((BothPresent /\ (~Parseable(last_dumped) \/ ~Parseable(PublishedText)))
               => needs_dump = ValueError)
        /\ (needs_dump = ValueError => BothPresent)

\* the last-dump text lacks the +00:00 suffix and the call raised
C3_Witness ==
    /\ sd_pc = "done"
    /\ BothPresent
    /\ LacksUtcSuffix(last_dumped)
    /\ Parseable(PublishedText)
    /\ needs_dump = ValueError

-----------------------------------------------------------------------------
(* Properties of XBlockSink.serialize_item                                 *)

\* number of blocks reachable from the root
Reachable == course_block.n
\* positions of the flat list that hold a block of a detached type
DetachedPositions ==
    { k \in 1..Len(course_blocks) : course_blocks[k].block_type \in detached_xblock_types }
\* N: reachable records plus detached records
TotalRecords == Reachable + Cardinality(DetachedPositions)

\* positions of the combined sequence that carry the location loc
Occurrences(loc) == { i \in 1..Len(items) : items[i].location = loc }
SetMax(S) == CHOOSE x \in S : \A y \in S : y <= x
SetMin(S) == CHOOSE x \in S : \A y \in S : x <= y
LastOccurrence(loc) == SetMax(Occurrences(loc))
FirstOccurrence(loc) == SetMin(Occurrences(loc))
SomeLocationRepeats ==
    \E i, j \in 1..Len(items) : i < j /\ items[i].location = items[j].location

OrdersContiguous ==
    /\ Len(items) = TotalRecords
    /\ \A i \in 1..Len(items) : items[i].order = i
EmittedOrdersIncrease ==
    \A i, j \in 1..Len(result) : i < j => result[i].order < result[j].order

\* C1 as stated: before dedupe the `order` values are exactly 1..N, and after
\* dedupe the emitted `order` values, read in output order, strictly increase.
C1_OrdersIncreaseAfterDedupe ==
    pc = "done" => (OrdersContiguous /\ EmittedOrdersIncrease)

\* C1 amended: before dedupe the `order` values are exactly 1..N; each emitted
\* record carries the `order` of the last occurrence of its identifier, so the
\* emitted values are pairwise distinct members of 1..N, and they increase in
\* output order whenever no identifier occurs twice.
C1_OrdersOfLastOccurrence ==
    pc = "done" =>
        /\ OrdersContiguous
        /\ \A i \in 1..Len(result) :
              /\ result[i].order \in 1..TotalRecords
              /\ result[i].order = LastOccurrence(result[i].location)
        /\ \A i, j \in 1..Len(result) : i # j => result[i].order # result[j].order
        /\ (~SomeLocationRepeats => EmittedOrdersIncrease)

\* a run where a duplicate took the slot of an earlier record: the emitted
\* orders are not increasing
C1_Witness ==
    /\ pc = "done"
    /\ SomeLocationRepeats
    /\ \E i, j \in 1..Len(result) : i < j /\ result[i].order > result[j].order

\* the stripped locations of the tree blocks and of the detached segment
TreeLocations == { items[i].location : i \in 1..Reachable }
DetachedLocations == { items[i].location : i \in (Reachable + 1)..Len(items) }

\* C4: one record per distinct identifier (output length = reachable nodes +
\* detached nodes whose identifier is not reachable); a repeated identifier
\* emits its last-seen record; survivors keep the order of first occurrence.
C4_DedupeKeepsLastInFirstSlot ==
    pc = "done" =>
        /\ \A i, j \in 1..Len(result) : i # j => result[i].location # result[j].location
        /\ { result[i].location : i \in 1..Len(result) }
              = { items[i].location : i \in 1..Len(items) }
        /\ Len(result) = Reachable + Cardinality(DetachedLocations \ TreeLocations)
        /\ \A i \in 1..Len(result) :
              result[i] = items[LastOccurrence(result[i].location)]
        /\ \A i, j \in 1..Len(result) :
              i < j => FirstOccurrence(result[i].location)
                          < FirstOccurrence(result[j].location)

\* a run where a repeated identifier sits before a later survivor
C4_Witness ==
    /\ pc = "done"
    /\ \E i \in 1..Len(result) :
          /\ Cardinality(Occurrences(result[i].location)) > 1
          /\ i < Len(result)
    /\ DetachedLocations \ TreeLocations # {}

\* C6: every emitted record flagged detached has section = subsection =
\* unit = 0, in the detached segment and inside the tree traversal alike.
C6_DetachedIndicesZero ==
    /\ \A i \in 1..Len(location_to_node) :
          location_to_node[i].detached = 1 =>
              /\ location_to_node[i].section = 0
              /\ location_to_node[i].subsection = 0
              /\ location_to_node[i].unit = 0
    /\ \A i \in 1..Len(result) :
          result[i].detached = 1 =>
              /\ result[i].section = 0
              /\ result[i].subsection = 0
              /\ result[i].unit = 0

\* a detached block met inside the tree while two of the running counters are
\* non-zero, and another one in the detached segment
C6_Witness ==
    /\ pc = "done"
    /\ \E i \in 1..Reachable :
          /\ items[i].detached = 1
          /\ \E a, b \in 1..(i-1) :
                /\ items[a].block_type = "chapter"
                /\ items[b].block_type \in {"sequential", "vertical"} /\ a < b
          /\ \E k \in 1..Len(result) : result[k] = items[i]
    /\ \E k \in 1..Len(result) :
          result[k].detached = 1 /\ result[k].order > Reachable

\* the non-detached record before position i, 0 when there is none
PreviousAttached(i) ==
    LET S == { j \in 1..(i-1) : items[j].detached = 0 }
    IN IF S = {} THEN 0 ELSE SetMax(S)
IndicesAt(i) ==
    IF i = 0 THEN <<0, 0, 0>>
    ELSE <<items[i].section, items[i].subsection, items[i].unit>>
SeenBefore(i, type) ==
    \E j \in 1..i : items[j].detached = 0 /\ items[j].block_type = type

\* C7: over the non-detached records in sequence order the three indices are
\* running counters: 0 until the first chapter / sequential / vertical, a
\* chapter adds one section and zeroes subsection and unit, a sequential adds
\* one subsection and zeroes unit, a vertical adds one unit, anything else
\* keeps all three; detached records in between change nothing.
C7_RunningCounters ==
    \A i \in 1..index :
        items[i].detached = 0 =>
            LET prev == IndicesAt(PreviousAttached(i))
                cur == IndicesAt(i)
                type == items[i].block_type
            IN /\ (~SeenBefore(i, "chapter") => cur[1] = 0)
               /\ (~SeenBefore(i, "sequential") => cur[2] = 0)
               /\ (~SeenBefore(i, "vertical") => cur[3] = 0)
               /\ cur[1] >= prev[1]
               /\ (type = "chapter" => cur = <<prev[1] + 1, 0, 0>>)
               /\ (type = "sequential" => cur = <<prev[1], prev[2] + 1, 0>>)
               /\ (type = "vertical" => cur = <<prev[1], prev[2], prev[3] + 1>>)
               /\ (type \notin {"chapter", "sequential", "vertical"} => cur = prev)
               /\ (type # "chapter" => cur[2] >= prev[2])
               /\ (type \notin {"chapter", "sequential"} => cur[3] >= prev[3])

\* a detached record between two non-detached ones while the counters are
\* non-zero, and a reset of a non-zero counter afterwards
C7_Witness ==
    /\ pc = "done"
    /\ \E i, j, k \in 1..Reachable :
          /\ i < j /\ j < k
          /\ items[i].block_type = "sequential"
          /\ items[j].detached = 1
          /\ items[k].block_type = "chapter"
          /\ PreviousAttached(k) = i
          /\ items[i].subsection = 1 /\ items[k].subsection = 0

\* position of tree block b in the combined sequence
PositionOf(b) == CHOOSE i \in 1..Reachable : items[i].location.block_id = b
RECURSIVE Ancestors(_)
Ancestors(b) ==
    IF course_block.parent[b] = 0 THEN {}
    ELSE {course_block.parent[b]} \cup Ancestors(course_block.parent[b])
Subtree(b) == { d \in 1..Reachable : d = b \/ b \in Ancestors(d) }
\* the k-th position of the flat list that holds a detached-type block
NthDetachedPosition(k) ==
    CHOOSE p \in DetachedPositions :
        Cardinality({ q \in DetachedPositions : q <= p }) = k

\* the tree segment is the depth-first pre-order (the root first, every subtree
\* contiguous behind its root, siblings in store order) and the detached
\* segment is the flat list filtered by type, in list order
PreOrderThenDetached ==
        /\ Len(items) = TotalRecords
        /\ \A b \in 1..Reachable :
              \E i \in 1..Reachable : items[i].location.block_id = b
        /\ \A i \in 1..Reachable :
              /\ items[i].location.branch = None
              /\ items[i].block_type
                    = course_block.block_type[items[i].location.block_id]
        /\ PositionOf(1) = 1
        /\ \A b \in 1..Reachable :
              { PositionOf(d) : d \in Subtree(b) }
                 = PositionOf(b)..(PositionOf(b) + Cardinality(Subtree(b)) - 1)
        /\ \A b, c \in 2..Reachable :
              (course_block.parent[b] = course_block.parent[c] /\ b < c)
                 => PositionOf(b) < PositionOf(c)
        /\ \A k \in 1..Cardinality(DetachedPositions) :
              LET src == course_blocks[NthDetachedPosition(k)]
                  rec == items[Reachable + k]
              IN /\ rec.location = [src.location EXCEPT !.branch = None]
                 /\ rec.block_type = src.block_type
                 /\ rec.detached = 1

\* C9: the pre-dedupe sequence is the depth-first pre-order of the tree (a
\* block before its descendants, children in store order) followed by the
\* detached-type blocks of the flat list in list order; `order` counts from 1
\* through both segments.
C9_PreOrderThenDetached ==
    /\ ((pc = "loop" /\ index = 0) \/ pc = "done") => PreOrderThenDetached
    /\ pc \in {"loop", "done"} => \A i \in 1..index : items[i].order = i
    /\ pc = "done" => index = Len(items)

\* a tree whose pre-order differs from the store's numbering, followed by a
\* detached segment that skipped a non-detached entry of the flat list
C9_Witness ==
    /\ pc = "done"
    /\ \E b, c \in 1..Reachable : b < c /\ PositionOf(b) > PositionOf(c)
    /\ Len(course_blocks) = 2
    /\ DetachedPositions = {2}
    /\ items[Len(items)].order = Reachable + 1

\* C10: when a block of the detached segment shares its identifier with a
\* tree record, the emitted record for that identifier is the detached one
\* (indices 0, the later order), so the tree record's indices are not emitted.
C10_DetachedDuplicateOverwrites ==
    pc = "done" =>
        \A i \in 1..Reachable : \A j \in (Reachable + 1)..Len(items) :
            items[i].location = items[j].location =>
                \E k \in 1..Len(result) :
                    /\ result[k].location = items[i].location
                    /\ result[k] = items[j]
                    /\ result[k].detached = 1
                    /\ result[k].order = j
                    /\ result[k].section = 0
                    /\ result[k].subsection = 0
                    /\ result[k].unit = 0
                    /\ \A m \in 1..Len(result) : result[m] # items[i]

\* a tree record with non-zero indices lost to a detached duplicate
C10_Witness ==
    /\ pc = "done"
    /\ \E i \in 1..Reachable : \E j \in (Reachable + 1)..Len(items) :
          /\ items[i].location = items[j].location
          /\ items[i].detached = 0
          /\ items[i].section > 0
          /\ \E k \in 1..Len(result) : result[k] = items[j] /\ result[k].section = 0

\* the chapters among the proper ancestors of tree block b
ChapterAncestors(b) ==
    { a \in Ancestors(b) : course_block.block_type[a] = "chapter" }
\* the nearest one: the one deepest in the tree, hence latest in pre-order
NearestChapter(b) ==
    CHOOSE a \in ChapterAncestors(b) :
        \A c \in ChapterAncestors(b) : PositionOf(c) <= PositionOf(a)
\* k such that tree block a is the k-th chapter met by the traversal
ChapterRank(a) ==
    Cardinality({ i \in 1..PositionOf(a) : items[i].block_type = "chapter" })

\* C5: an emitted non-detached block whose nearest chapter ancestor is the
\* k-th chapter of the traversal has section k; one with no chapter ancestor
\* that is no chapter itself has section 0.
C5_SectionOfNearestChapter ==
    pc = "done" =>
        \A r \in 1..Len(result) :
            result[r].detached = 0 =>
                LET b == result[r].location.block_id
                IN IF ChapterAncestors(b) # {}
                   THEN result[r].section = ChapterRank(NearestChapter(b))
                   ELSE (result[r].block_type # "chapter" => result[r].section = 0)

-----------------------------------------------------------------------------
(* Signal handlers (platform_plugin_aspects.signals), as the tests in      *)
(* tests/test_signals.py call them.                                        *)

\* largest number of tasks waiting in the queue
MaxTasks == 3

CourseKeys == {"sample_key", "course-v1:Org+Course+Run"}
\* primary keys of the saved ExternalId / UserRetirementStatus rows
InstanceIds == {7, 12}

\* str(n) for a non-negative int: decimal, no padding
RECURSIVE IntStr(_)
IntStr(n) ==
    IF n < 10 THEN <<Digits[n + 1]>>
    ELSE IntStr(n \div 10) \o <<Digits[(n % 10) + 1]>>

ExternalIdSink ==
    [module |-> "platform_plugin_aspects.sinks.external_id_sink",
     name |-> "ExternalIdSink"]
UserRetirementSink ==
    [module |-> "platform_plugin_aspects.sinks.user_retire_sink",
     name |-> "UserRetirementSink"]

\* dump_course_to_clickhouse.delay(course_key)
CourseTask(course_key) ==
    [task |-> "dump_course_to_clickhouse", course_key |-> course_key,
     sink_module |-> None, sink_name |-> None, object_id |-> <<>>]
\* dump_data_to_clickhouse.delay(sink_module=..., sink_name=..., object_id=...)
DataTask(sink, instance_id) ==
    [task |-> "dump_data_to_clickhouse", course_key |-> None,
     sink_module |-> sink.module, sink_name |-> sink.name,
     object_id |-> IntStr(instance_id)]

Delay(queue, task) == Append(queue, task)

receive_course_publish(course_key) ==
    /\ Len(task_queue) < MaxTasks
    /\ task_queue' = Delay(task_queue, CourseTask(course_key))
    /\ delivered' = <<"receive_course_publish", course_key, 0>>
    /\ UNCHANGED xblock_vars /\ UNCHANGED dump_vars

on_externalid_saved(instance_id) ==
    /\ Len(task_queue) < MaxTasks
    /\ task_queue' = Delay(task_queue, DataTask(ExternalIdSink, instance_id))
    /\ delivered' = <<"on_externalid_saved", None, instance_id>>
    /\ UNCHANGED xblock_vars /\ UNCHANGED dump_vars

\* mutation: the retirement handler names the ExternalId sink
on_user_retirement_WrongSink(instance_id) ==
    /\ Len(task_queue) < MaxTasks
    /\ task_queue' = Delay(task_queue, DataTask(ExternalIdSink, instance_id))
    /\ delivered' = <<"on_user_retirement", None, instance_id>>
    /\ UNCHANGED xblock_vars /\ UNCHANGED dump_vars

on_user_retirement(instance_id) ==
    /\ Len(task_queue) < MaxTasks
    /\ task_queue' = Delay(task_queue, DataTask(UserRetirementSink, instance_id))
    /\ delivered' = <<"on_user_retirement", None, instance_id>>
    /\ UNCHANGED xblock_vars /\ UNCHANGED dump_vars

SignalInit ==
    /\ delivered = <<None, None, 0>>
    /\ task_queue = <<>>
    /\ XBlockIdle /\ DumpIdle

ReceiveCoursePublish == \E course_key \in CourseKeys : receive_course_publish(course_key)
OnExternalIdSaved == \E instance_id \in InstanceIds : on_externalid_saved(instance_id)
OnUserRetirement == \E instance_id \in InstanceIds : on_user_retirement(instance_id)

SignalNext == ReceiveCoursePublish \/ OnExternalIdSaved \/ OnUserRetirement

SignalSpec == SignalInit /\ [][SignalNext]_vars

\* the printed form of the ids the handlers are given
IdText(instance_id) ==
    IF instance_id = 7 THEN <<"7">> ELSE <<"1", "2">>

\* the one task the tests expect for a delivery
ExpectedTask(signal) ==
    IF signal[1] = "receive_course_publish"
    THEN [task |-> "dump_course_to_clickhouse", course_key |-> signal[2],
          sink_module |-> None, sink_name |-> None, object_id |-> <<>>]
    ELSE IF signal[1] = "on_externalid_saved"
    THEN [task |-> "dump_data_to_clickhouse", course_key |-> None,
          sink_module |-> "platform_plugin_aspects.sinks.external_id_sink",
          sink_name |-> "ExternalIdSink", object_id |-> IdText(signal[3])]
    ELSE [task |-> "dump_data_to_clickhouse", course_key |-> None,
          sink_module |-> "platform_plugin_aspects.sinks.user_retire_sink",
          sink_name |-> "UserRetirementSink", object_id |-> IdText(signal[3])]

\* C8: each delivery of a lifecycle event enqueues exactly one task, the one
\* its handler is tested for, and changes nothing else.
C8_OneTaskPerDelivery ==
    [][ /\ Len(task_queue') = Len(task_queue) + 1
        /\ SubSeq(task_queue', 1, Len(task_queue)) = task_queue
        /\ task_queue'[Len(task_queue')] = ExpectedTask(delivered')
        /\ UNCHANGED <<xblock_vars, dump_vars>> ]_vars

\* all three handlers have run, each left its own task
C8_Witness ==
    /\ Len(task_queue) = 3
    /\ task_queue[1].task = "dump_course_to_clickhouse"
    /\ task_queue[2].sink_name = "ExternalIdSink"
    /\ task_queue[2].object_id = <<"1", "2">>
    /\ task_queue[3].sink_name = "UserRetirementSink"
    /\ delivered[1] = "on_user_retirement"

====
